---- MODULE Spec2Model ----
(***************************************************************************)
(* Model of fix-update-layer.py: a one-shot script that reads              *)
(* src/contexts/StudioContext.tsx, replaces the unpatched updateLayer      *)
(* block by a block that auto-increments the layer version, writes the     *)
(* file back when the text changed and prints what it did.                 *)
(*                                                                         *)
(* Text is a sequence of tokens.  Every token stands for one fixed run of  *)
(* characters of the script's string literals; line ends are the tokens    *)
(* CR and LF, so that the newline translation of Python's text-mode        *)
(* open() is modelled by what it does.  The tokens are cut where the       *)
(* script's literals share text (the first line of both blocks, their      *)
(* common tail, the signature and the marker the diagnostics look for).    *)
(***************************************************************************)
EXTENDS Integers, Sequences, FiniteSets, TLC

VARIABLES
  file,         \* the characters of src/contexts/StudioContext.tsx on disk
  linesep,      \* os.linesep of the platform the script runs on
  pc,           \* position of the script
  content,      \* the script's variable content
  new_content,  \* the script's variable new_content
  stdout,       \* the lines printed by this run, in order
  err,          \* the uncaught exception that ended this run, or NoError
  run,          \* number of the current invocation of the script
  orig,         \* history: the file when this run started
  openedW,      \* history: this run opened the file with mode 'w'
  reads,        \* history: number of open(..., 'r') calls of this run
  prevFixed,    \* history: the previous run ended after printing success
  interfered,   \* history: another process wrote the file after this run's read
  otherText,    \* history: what the other process wrote last
  layers,       \* React state of the patched component: the layers
  isDirty,      \* React state of the patched component: the dirty flag
  call,         \* history: the last updateLayer call and the layers before it
  calls         \* history: number of updateLayer calls so far

vars == <<file, linesep, pc, content, new_content, stdout, err, run, orig,
          openedW, reads, prevFixed, interfered, otherText, layers, isDirty, call, calls>>

patcherVars == <<file, linesep, pc, content, new_content, stdout, err, run, orig,
                 openedW, reads, prevFixed, interfered, otherText>>

studioVars == <<layers, isDirty, call, calls>>

(***************************************************************************)
(* Bounds                                                                  *)
(***************************************************************************)
MaxChunks == 2      \* an initial file is a concatenation of at most this many chunks
MaxRuns == 2        \* invocations of the script in one behaviour
MaxVersion == 4     \* layer versions are drawn from 0..MaxVersion
MaxCalls == 1       \* updateLayer calls in one behaviour

(***************************************************************************)
(* Characters                                                              *)
(***************************************************************************)
LF == "LF"
CR == "CR"
BadByte == "badByte"    \* a byte sequence that is not valid UTF-8

Unset == <<"unbound">>  \* a Python name that has not been assigned

NoError == <<"none", "none">>   \* err is <<exception, the call that raised it>>

\* 'const updateLayer = useCallback((id: string, updates: Partial<Layer>)'
Signature == <<"signature">>

\* 'const newUpdates = updates.canvas'
Marker == <<"marker">>

\* The text old_pattern matches.  Every regex metacharacter of old_pattern
\* is escaped and it has no anchors, so it matches exactly this literal.
old_pattern ==
  <<"indent2", "signature", "arrowBrace", LF,
    "setLayers", LF,
    "prevMap", LF,
    "ternary", LF,
    "closeParen", LF,
    "closeSet", LF,
    "setIsDirty", LF,
    "deps">>

\* The replacement text.  It has no backslash, so re.sub inserts it as is.
new_code ==
  <<"indent2", "signature", "arrowBrace", LF,
    "setLayers", LF,
    "prevMap", "brace", LF,
    "ifNotId", LF,
    LF,
    "comment1", LF,
    "comment2", LF,
    "comment3", LF,
    "indent8", "marker", LF,
    "thenVersion", LF,
    "elseUpdates", LF,
    LF,
    "returnMerged", LF,
    "closeBraceParen", LF,
    "closeSet", LF,
    "setIsDirty", LF,
    "deps">>

(***************************************************************************)
(* Strings                                                                 *)
(***************************************************************************)
StartsWith(s, p) == Len(p) <= Len(s) /\ SubSeq(s, 1, Len(p)) = p

\* Python's `p in s`
Contains(p, s) == \E i \in 0..(Len(s) - Len(p)) : SubSeq(s, i + 1, i + Len(p)) = p

\* the positions where p occurs in s
Occurrences(p, s) ==
  {i \in 1..(Len(s) - Len(p) + 1) : SubSeq(s, i, i + Len(p) - 1) = p}

Least(S) == CHOOSE i \in S : \A j \in S : i <= j

\* re.sub with count=1: the leftmost match only
re_sub_count1(pattern, repl, string) ==
  IF Occurrences(pattern, string) = {} THEN string
  ELSE LET i == Least(Occurrences(pattern, string))
       IN SubSeq(string, 1, i - 1) \o repl
            \o SubSeq(string, i + Len(pattern), Len(string))

\* re.sub(pattern, repl, string): the leftmost match is replaced and the
\* scan goes on behind it, so the matches replaced do not overlap and the
\* replacement is not scanned again
RECURSIVE re_sub(_, _, _)
re_sub(pattern, repl, string) ==
  IF Occurrences(pattern, string) = {} THEN string
  ELSE LET i == Least(Occurrences(pattern, string))
       IN SubSeq(string, 1, i - 1) \o repl
            \o re_sub(pattern, repl, SubSeq(string, i + Len(pattern), Len(string)))

\* s[lo..hi] with every element replaced by the sequence f gives for its position
RECURSIVE FlatMap(_, _, _)
FlatMap(f, lo, hi) ==
  IF lo > hi THEN <<>>
  ELSE IF lo = hi THEN f[lo]
  ELSE FlatMap(f, lo, (lo + hi) \div 2) \o FlatMap(f, (lo + hi) \div 2 + 1, hi)

\* Text-mode read with newline=None: "\r\n" and a lone "\r" become "\n",
\* that is, a "\n" behind a "\r" is dropped and every "\r" becomes "\n".
UniversalNewlines(bytes) ==
  FlatMap([i \in 1..Len(bytes) |->
             IF bytes[i] = CR THEN <<LF>>
             ELSE IF bytes[i] = LF /\ i > 1 /\ bytes[i - 1] = CR THEN <<>>
             ELSE <<bytes[i]>>],
          1, Len(bytes))

\* Text-mode write with newline=None: every "\n" becomes os.linesep.
TranslateNewlines(text, sep) ==
  FlatMap([i \in 1..Len(text) |-> IF text[i] = LF THEN sep ELSE <<text[i]>>],
          1, Len(text))

\* The bytes decode as UTF-8.
Decodable(bytes) == \A i \in 1..Len(bytes) : bytes[i] # BadByte

(***************************************************************************)
(* Status lines                                                            *)
(***************************************************************************)
MsgFixed == "Fixed updateLayer function"
MsgNotFound == "Pattern not found - trying manual search..."
MsgFoundFunction == "  Found updateLayer function"
MsgAlreadyPatched == "  Already patched!"
MsgNotPatched == "  Not patched - manual intervention needed"

(***************************************************************************)
(* The script's conditions                                                 *)
(***************************************************************************)
\* the write done without the comparison
ShouldWrite_always == TRUE

\* the write done only when the file still reads as it did
ShouldWrite_ifFileUnchanged ==
  new_content # content /\ Decodable(file) /\ UniversalNewlines(file) = content

\* if new_content != content:
ShouldWrite == new_content # content

\* a signature literal that never occurs
FoundFunction_never(text) == FALSE

\* if 'const updateLayer = useCallback((id: string, updates: Partial<Layer>)' in content:
FoundFunction(text) == Contains(Signature, text)

\* the two branches of the marker check swapped
IsPatched_inverted(text) == ~Contains(Marker, text)

\* if 'const newUpdates = updates.canvas' in content:
IsPatched(text) == Contains(Marker, text)

(***************************************************************************)
(* Files the script may meet                                               *)
(***************************************************************************)
Posix == <<LF>>
Windows == <<CR, LF>>

\* the unpatched block with extra whitespace in its first line
Drifted ==
  <<"indent2", "signature", "space", "arrowBrace", LF, "setLayers", LF, "prevMap">>

Chunks ==
  { old_pattern,
    TranslateNewlines(old_pattern, Windows),
    new_code,
    Drifted,
    Marker,
    <<"other">>,
    <<LF>>,
    <<CR, LF>>,
    <<BadByte>> }

RECURSIVE Files(_)
Files(n) ==
  IF n = 0 THEN {<<>>}
  ELSE LET shorter == Files(n - 1)
       IN shorter \cup {f \o c : f \in shorter, c \in Chunks}

\* what another process may write into the file
OtherTexts == {<<"other">>, old_pattern \o <<LF, "other">>, <<>>}

NoCall == [id |-> 0, updates |-> <<>>, prev |-> <<>>]

StudioIdle == layers = <<>> /\ isDirty = FALSE /\ call = NoCall /\ calls = 0

(***************************************************************************)
(* The script                                                              *)
(***************************************************************************)
PatcherInit ==
  /\ file \in Files(MaxChunks)
  /\ linesep \in {Posix, Windows}
  /\ pc = "read"
  /\ content = Unset
  /\ new_content = Unset
  /\ stdout = <<>>
  /\ err = NoError
  /\ run = 1
  /\ orig = file
  /\ openedW = FALSE
  /\ reads = 0
  /\ prevFixed = FALSE
  /\ interfered = FALSE
  /\ otherText = <<>>

Init == PatcherInit /\ StudioIdle

\* with open(path, 'r', encoding='utf-8') as f: content = f.read()
ReadFile ==
  /\ pc = "read"
  /\ Decodable(file)
  /\ content' = UniversalNewlines(file)
  /\ reads' = reads + 1
  /\ pc' = "sub"
  /\ UNCHANGED <<file, linesep, new_content, stdout, err, run, orig, openedW,
                 prevFixed, interfered, otherText>>
  /\ UNCHANGED studioVars

\* the read's exception caught and the script going on with no text
ReadFail_swallowed ==
  /\ pc = "read"
  /\ \E e \in {"OSError", "UnicodeDecodeError"} :
       /\ e = "UnicodeDecodeError" => ~Decodable(file)
       /\ err' = <<e, "read">>
  /\ content' = <<>>
  /\ reads' = reads + 1
  /\ pc' = "sub"
  /\ UNCHANGED <<file, linesep, new_content, stdout, run, orig, openedW,
                 prevFixed, interfered, otherText>>
  /\ UNCHANGED studioVars

\* open or read raises (FileNotFoundError, PermissionError, UnicodeDecodeError);
\* nothing catches it
ReadFail ==
  /\ pc = "read"
  /\ \E e \in {"OSError", "UnicodeDecodeError"} :
       /\ e = "UnicodeDecodeError" => ~Decodable(file)
       /\ err' = <<e, "read">>
  /\ reads' = reads + 1
  /\ pc' = "aborted"
  /\ UNCHANGED <<file, linesep, content, new_content, stdout, run, orig, openedW,
                 prevFixed, interfered, otherText>>
  /\ UNCHANGED studioVars

\* new_content = re.sub(old_pattern, new_code, content, flags=re.MULTILINE)
Substitute ==
  /\ pc = "sub"
  /\ new_content' = re_sub(old_pattern, new_code, content)
  /\ pc' = "compare"
  /\ UNCHANGED <<file, linesep, content, stdout, err, run, orig, openedW, reads,
                 prevFixed, interfered, otherText>>
  /\ UNCHANGED studioVars

\* open(path, 'w', encoding='utf-8'): the file is truncated as it is opened
OpenWrite ==
  /\ pc = "compare"
  /\ ShouldWrite
  /\ file' = <<>>
  /\ openedW' = TRUE
  /\ pc' = "write"
  /\ UNCHANGED <<linesep, content, new_content, stdout, err, run, orig, reads,
                 prevFixed, interfered, otherText>>
  /\ UNCHANGED studioVars

\* open(path, 'w') raises: the file is not touched
OpenWriteFail ==
  /\ pc = "compare"
  /\ ShouldWrite
  /\ err' = <<"OSError", "open_w">>
  /\ pc' = "aborted"
  /\ UNCHANGED <<file, linesep, content, new_content, stdout, run, orig, openedW,
                 reads, prevFixed, interfered, otherText>>
  /\ UNCHANGED studioVars

\* f.write(new_content) and the close at the end of the with block
WriteFile ==
  /\ pc = "write"
  /\ file' = TranslateNewlines(new_content, linesep)
  /\ pc' = "print_fixed"
  /\ UNCHANGED <<linesep, content, new_content, stdout, err, run, orig, openedW,
                 reads, prevFixed, interfered, otherText>>
  /\ UNCHANGED studioVars

\* the write or the flush raises (disk full, I/O error) after part of the
\* text reached the disk
WriteFail ==
  /\ pc = "write"
  /\ \E k \in 0..(Len(TranslateNewlines(new_content, linesep)) - 1) :
       file' = SubSeq(TranslateNewlines(new_content, linesep), 1, k)
  /\ err' = <<"OSError", "write">>
  /\ pc' = "aborted"
  /\ UNCHANGED <<linesep, content, new_content, stdout, run, orig, openedW, reads,
                 prevFixed, interfered, otherText>>
  /\ UNCHANGED studioVars

\* print('Fixed updateLayer function')
PrintFixed ==
  /\ pc = "print_fixed"
  /\ stdout' = Append(stdout, MsgFixed)
  /\ pc' = "done"
  /\ UNCHANGED <<file, linesep, content, new_content, err, run, orig, openedW,
                 reads, prevFixed, interfered, otherText>>
  /\ UNCHANGED studioVars

\* else: print('Pattern not found - trying manual search...')
PrintNotFound ==
  /\ pc = "compare"
  /\ ~ShouldWrite
  /\ stdout' = Append(stdout, MsgNotFound)
  /\ pc' = "manual_search"
  /\ UNCHANGED <<file, linesep, content, new_content, err, run, orig, openedW,
                 reads, prevFixed, interfered, otherText>>
  /\ UNCHANGED studioVars

\* the signature is in content: print('  Found updateLayer function')
PrintFoundFunction ==
  /\ pc = "manual_search"
  /\ FoundFunction(content)
  /\ stdout' = Append(stdout, MsgFoundFunction)
  /\ pc' = "check_marker"
  /\ UNCHANGED <<file, linesep, content, new_content, err, run, orig, openedW,
                 reads, prevFixed, interfered, otherText>>
  /\ UNCHANGED studioVars

\* the missing branch filled in: a line for the function that is not there
FunctionAbsent_reported ==
  /\ pc = "manual_search"
  /\ ~FoundFunction(content)
  /\ stdout' = Append(stdout, "  updateLayer function not found")
  /\ pc' = "done"
  /\ UNCHANGED <<file, linesep, content, new_content, err, run, orig,
                 openedW, reads, prevFixed, interfered, otherText>>
  /\ UNCHANGED studioVars

\* the signature is not in content: the script ends without another line
FunctionAbsent ==
  /\ pc = "manual_search"
  /\ ~FoundFunction(content)
  /\ pc' = "done"
  /\ UNCHANGED <<file, linesep, content, new_content, stdout, err, run, orig,
                 openedW, reads, prevFixed, interfered, otherText>>
  /\ UNCHANGED studioVars

\* print('  Already patched!')
PrintAlreadyPatched ==
  /\ pc = "check_marker"
  /\ IsPatched(content)
  /\ stdout' = Append(stdout, MsgAlreadyPatched)
  /\ pc' = "done"
  /\ UNCHANGED <<file, linesep, content, new_content, err, run, orig, openedW,
                 reads, prevFixed, interfered, otherText>>
  /\ UNCHANGED studioVars

\* print('  Not patched - manual intervention needed')
PrintNotPatched ==
  /\ pc = "check_marker"
  /\ ~IsPatched(content)
  /\ stdout' = Append(stdout, MsgNotPatched)
  /\ pc' = "done"
  /\ UNCHANGED <<file, linesep, content, new_content, err, run, orig, openedW,
                 reads, prevFixed, interfered, otherText>>
  /\ UNCHANGED studioVars

\* the script is started again: a new process, with nothing kept but the file
RunAgain ==
  /\ pc \in {"done", "aborted"}
  /\ run < MaxRuns
  /\ run' = run + 1
  /\ prevFixed' = (pc = "done" /\ stdout = <<MsgFixed>>)
  /\ pc' = "read"
  /\ content' = Unset
  /\ new_content' = Unset
  /\ stdout' = <<>>
  /\ err' = NoError
  /\ orig' = file
  /\ openedW' = FALSE
  /\ reads' = 0
  /\ interfered' = FALSE
  /\ otherText' = <<>>
  /\ UNCHANGED <<file, linesep>>
  /\ UNCHANGED studioVars

\* another process rewrites the file after the script's read and before the
\* script opens it for writing
OtherProcessWrites ==
  /\ pc \in {"sub", "compare"}
  /\ ~interfered
  /\ \E t \in OtherTexts :
       /\ t # file
       /\ file' = t
       /\ otherText' = t
  /\ interfered' = TRUE
  /\ UNCHANGED <<linesep, pc, content, new_content, stdout, err, run, orig,
                 openedW, reads, prevFixed>>
  /\ UNCHANGED studioVars

Script ==
  \/ ReadFile
  \/ ReadFail
  \/ Substitute
  \/ OpenWrite
  \/ OpenWriteFail
  \/ WriteFile
  \/ WriteFail
  \/ PrintFixed
  \/ PrintNotFound
  \/ PrintFoundFunction
  \/ FunctionAbsent
  \/ PrintAlreadyPatched
  \/ PrintNotPatched
  \/ RunAgain

Next == Script

Spec == Init /\ [][Next]_vars

NextConc == Script \/ OtherProcessWrites

SpecConc == Init /\ [][NextConc]_vars

(***************************************************************************)
(* The replacement block: updateLayer as new_code defines it.              *)
(* A JavaScript object is a function from its own keys to values; a value  *)
(* is undefined, a number or an object reference.                          *)
(***************************************************************************)
Undefined == <<"undefined">>
Num(n) == <<"number", n>>
Obj(r) == <<"object", r>>

IsNum(v) == v[1] = "number"

\* o.k: undefined when o has no such key
Get(o, k) == IF k \in DOMAIN o THEN o[k] ELSE Undefined

\* ToBoolean of the values modelled here
Truthy(v) == v # Undefined /\ v # Num(0)

\* { ...a, ...b }
Spread(a, b) ==
  [k \in (DOMAIN a) \cup (DOMAIN b) |-> IF k \in DOMAIN b THEN b[k] ELSE a[k]]

\* (layer.version || 0) + 1
NextVersion(layer) ==
  IF Truthy(Get(layer, "version")) /\ IsNum(Get(layer, "version"))
  THEN Num(Get(layer, "version")[2] + 1)
  ELSE Num(0 + 1)

\* updates.version || (layer.version || 0) + 1
VersionFor_or(updates, layer) ==
  IF Truthy(Get(updates, "version")) THEN Get(updates, "version") ELSE NextVersion(layer)

\* updates.version ?? (layer.version || 0) + 1
VersionFor(updates, layer) ==
  IF Get(updates, "version") # Undefined
  THEN Get(updates, "version")
  ELSE NextVersion(layer)

\* const newUpdates = updates.canvas ? { ...updates, version: ... } : updates;
NewUpdates(updates, layer) ==
  IF Truthy(Get(updates, "canvas"))
  THEN Spread(updates, [version |-> VersionFor(updates, layer)])
  ELSE updates

\* prev.map(layer => { if (layer.id !== id) return layer; ...
\*                     return { ...layer, ...newUpdates }; })
MapLayers(prev, id, updates) ==
  [i \in DOMAIN prev |->
     IF prev[i]["id"] # id THEN prev[i]
     ELSE Spread(prev[i], NewUpdates(updates, prev[i]))]

Versions == {Num(n) : n \in 0..MaxVersion}

\* a layer of the component's state, with or without a version
LayersOf(id) ==
  {[id |-> Num(id), canvas |-> Obj("canvasA")]}
    \cup {[id |-> Num(id), canvas |-> Obj("canvasA"), version |-> v] : v \in Versions}

\* the Partial<Layer> payloads of the calls
Payloads ==
  LET canvasPart == {<<>>, [canvas |-> Obj("canvasB")], [canvas |-> Undefined]}
      versionPart == {<<>>, [version |-> Undefined]} \cup {[version |-> v] : v \in Versions}
      namePart == {<<>>, [name |-> Obj("renamed")]}
  IN {Spread(Spread(c, v), n) : c \in canvasPart, v \in versionPart, n \in namePart}

\* the file is patched and no script is running
PatcherIdle ==
  /\ file = new_code
  /\ linesep = Posix
  /\ pc = "done"
  /\ content = Unset
  /\ new_content = Unset
  /\ stdout = <<>>
  /\ err = NoError
  /\ run = MaxRuns
  /\ orig = file
  /\ openedW = FALSE
  /\ reads = 0
  /\ prevFixed = FALSE
  /\ interfered = FALSE
  /\ otherText = <<>>

StudioInit ==
  /\ layers \in {<<a, b>> : a \in LayersOf(1), b \in LayersOf(2)}
  /\ isDirty = FALSE
  /\ call = NoCall
  /\ calls = 0

\* updateLayer(id, updates): setLayers(prev => prev.map(...)); setIsDirty(true)
UpdateLayer ==
  /\ calls < MaxCalls
  /\ \E id \in 1..3, updates \in Payloads :
       /\ \A i \in DOMAIN layers :
            IsNum(Get(MapLayers(layers, Num(id), updates)[i], "version"))
              => Get(MapLayers(layers, Num(id), updates)[i], "version")[2] <= MaxVersion
       /\ layers' = MapLayers(layers, Num(id), updates)
       /\ call' = [id |-> Num(id), updates |-> updates, prev |-> layers]
  /\ isDirty' = TRUE
  /\ calls' = calls + 1
  /\ UNCHANGED patcherVars

InitStudio == PatcherIdle /\ StudioInit

NextStudio == UpdateLayer

SpecStudio == InitStudio /\ [][NextStudio]_vars

(***************************************************************************)
(* Properties                                                              *)
(***************************************************************************)
Matched(text) == Contains(old_pattern, text)

Substituted(text) == re_sub(old_pattern, new_code, text)

Computed == new_content # Unset

Ended == pc \in {"done", "aborted"}

FiveLines ==
  {MsgFixed, MsgNotFound, MsgFoundFunction, MsgAlreadyPatched, MsgNotPatched}

\* C1: whenever the file holds the target fragment, a completed run leaves
\* the file as the original with every occurrence of the fragment replaced
\* by new_code and every other character unchanged, and prints the success
\* line.
C1_PatchedExactly ==
  (pc = "done" /\ Matched(orig))
    => (file = Substituted(orig) /\ stdout = <<MsgFixed>>)

\* C2: once a run has patched and written the file, the next run never opens
\* the file for writing, leaves it as it found it, and ends by reporting
\* "already patched".
C2_Idempotent ==
  prevFixed =>
    /\ ~openedW
    /\ file = orig
    /\ pc = "done" => stdout = <<MsgNotFound, MsgFoundFunction, MsgAlreadyPatched>>

C2_Witness ==
  /\ run = 2
  /\ prevFixed
  /\ pc = "done"
  /\ stdout[Len(stdout)] = MsgAlreadyPatched
  /\ Contains(new_code, file)
  /\ ~openedW

\* C3: the file is opened for writing exactly when new_content differs from
\* content, which is exactly when the pattern matched; with no match (so for
\* any text without the signature) the file is never opened for writing and
\* stays as it was.
C3_WriteIffMatched ==
  /\ Computed => ((new_content # content) <=> Matched(content))
  /\ openedW => (Computed /\ new_content # content)
  /\ pc = "done" => (openedW <=> new_content # content)
  /\ (Computed /\ ~Matched(content)) => (~openedW /\ file = orig)
  /\ (Computed /\ ~Contains(Signature, content)) => (~openedW /\ file = orig)

C3_Witness ==
  /\ pc = "done"
  /\ ~Contains(Signature, content)
  /\ Len(content) > 1
  /\ ~openedW
  /\ file = orig

\* C4 as stated: a text with the signature that the pattern does not match
\* is left unchanged and gets the "manual intervention" line.
C4_SignatureUnmatched ==
  (pc = "done" /\ Contains(Signature, content) /\ ~Matched(content))
    => (file = orig /\ stdout[Len(stdout)] = MsgNotPatched)

\* C4 amended: a text with the signature that the pattern does not match and
\* that does not hold the marker is left unchanged and gets the "manual
\* intervention" line.
C4_SignatureUnmatchedUnmarked ==
  (pc = "done" /\ Contains(Signature, content) /\ ~Matched(content)
     /\ ~Contains(Marker, content))
    => (file = orig /\ ~openedW
          /\ stdout = <<MsgNotFound, MsgFoundFunction, MsgNotPatched>>)

C4_Witness ==
  /\ pc = "done"
  /\ Contains(Drifted, content)
  /\ ~Contains(Marker, content)
  /\ file = orig
  /\ stdout[Len(stdout)] = MsgNotPatched

\* C6 as stated: every line printed is one of three: success, not found,
\* already patched.
C6_ThreeLines ==
  \A i \in 1..Len(stdout) : stdout[i] \in {MsgFixed, MsgNotFound, MsgAlreadyPatched}

\* C6 amended: every line printed is one of five: success, not found, found
\* the function, already patched, manual intervention needed.
C6_FiveLines == \A i \in 1..Len(stdout) : stdout[i] \in FiveLines

C6_Witness ==
  /\ pc = "done"
  /\ \E i, j \in 1..Len(stdout) :
       stdout[i] = MsgFoundFunction /\ stdout[j] = MsgNotPatched

\* C7: when a run has ended, normally or by an I/O error, the file is either
\* what it was before the run or the complete new text.
C7_AllOrNothing ==
  Ended =>
    \/ file = orig
    \/ Computed /\ file = TranslateNewlines(new_content, linesep)

\* C8: when another process rewrote the file between the script's read and
\* its write, a run that completes has, if the pattern matched what was
\* read, written the substitution of what was read over the other process's
\* text, and has otherwise not written, so that the other process's text
\* stays.
C8_LostUpdate ==
  (pc = "done" /\ interfered) =>
    IF Matched(content)
    THEN openedW /\ file = TranslateNewlines(Substituted(content), linesep)
    ELSE ~openedW /\ file = otherText

C8_Witness ==
  /\ pc = "done"
  /\ interfered
  /\ Matched(content)
  /\ file # otherText
  /\ ~Contains(otherText, file)
  /\ otherText # <<>>

\* C9 as stated: with no substitution and the marker in the text, the run
\* reports "already patched".
C9_MarkerReported ==
  (pc = "done" /\ new_content = content /\ Contains(Marker, content))
    => (\E i \in 1..Len(stdout) : stdout[i] = MsgAlreadyPatched)

\* C9 amended: with no substitution and both the signature and the marker in
\* the text, the run reports "already patched".
C9_SignatureAndMarkerReported ==
  (pc = "done" /\ new_content = content /\ Contains(Marker, content)
     /\ Contains(Signature, content))
    => (\E i \in 1..Len(stdout) : stdout[i] = MsgAlreadyPatched)

C9_Witness ==
  /\ pc = "done"
  /\ new_content = content
  /\ Contains(Marker, content)
  /\ Contains(Signature, content)
  /\ ~prevFixed
  /\ stdout[Len(stdout)] = MsgAlreadyPatched

\* C10: when the read raised, the run is over: nothing was substituted, the
\* file was not opened for writing and is as it was, nothing was printed,
\* and the file was opened for reading once.
C10_ReadErrorAborts ==
  err[2] = "read" =>
    /\ pc = "aborted"
    /\ content = Unset
    /\ new_content = Unset
    /\ ~openedW
    /\ file = orig
    /\ stdout = <<>>
    /\ reads = 1

C10_Witness ==
  /\ err = <<"UnicodeDecodeError", "read">>
  /\ pc = "aborted"
  /\ Matched(file)

\* the version of a layer as a number, a missing one counting as 0
PriorVersion(layer) ==
  IF IsNum(Get(layer, "version")) THEN Get(layer, "version")[2] ELSE 0

\* C5: after updateLayer(id, updates), a layer with another id is unchanged;
\* the layer with that id is the old one overlaid with updates when
\* updates.canvas is absent; and when updates.canvas is present it is that
\* overlay with version set to updates.version if one is given and to the
\* prior version (0 if missing) plus 1 otherwise.
C5_UpdateRule ==
  calls > 0 =>
    \A i \in DOMAIN layers :
      LET p == call.prev[i]
          u == call.updates
          r == layers[i]
      IN IF p["id"] # call.id THEN r = p
         ELSE IF Get(u, "canvas") = Undefined THEN r = Spread(p, u)
         ELSE /\ DOMAIN r = DOMAIN Spread(p, u) \cup {"version"}
              /\ \A k \in DOMAIN r \ {"version"} : r[k] = Spread(p, u)[k]
              /\ r["version"] = IF Get(u, "version") # Undefined
                                THEN u["version"]
                                ELSE Num(PriorVersion(p) + 1)

C5_Witness ==
  /\ calls > 0
  /\ \E i \in DOMAIN layers :
       /\ call.prev[i]["id"] = call.id
       /\ Get(call.prev[i], "version") = Num(3)
       /\ Get(call.updates, "canvas") # Undefined
       /\ "version" \notin DOMAIN call.updates
       /\ layers[i]["version"] = Num(4)
       /\ isDirty

====
